---- MODULE Spec2Model ----
(***************************************************************************)
(* The review console of qb-audio: the list state of useAyahs, the row     *)
(* actions of AyahTable, the split modal, the version map read by          *)
(* AudioPlayer and the EventSource listener of App.                        *)
(*                                                                         *)
(* The repository holds two versions of the application component:         *)
(*   variant "A"  src/web/src/App.tsx (fetchAyahs has deps [], no listener)*)
(*   variant "B"  the App of src/web/src/components/LoadingButton.tsx,     *)
(*                lines 83-495 (deps [ayahs.length], EventSource, modal).  *)
(* A state change, the render it causes and the effects of that render are *)
(* one step.  The backend is outside the repository: its database changes  *)
(* and its answers are nondeterministic.  A session is explored up to      *)
(* MaxInputs events that put something in flight: a click that sends a     *)
(* POST, a change of the database, a pushed message.                       *)
(***************************************************************************)
EXTENDS Integers, Sequences, FiniteSets, Bags, TLC

VARIABLES
  variant,        \* which App component runs
  mounted,        \* App is mounted (the session is alive)
  db,             \* server: status of every identifier
  srvVer,         \* server: number of changes applied to db
  ayahs,          \* useAyahs: the collection
  isLoading,      \* useAyahs: loading flag
  error,          \* useAyahs: error string or Null
  selectedSurah,  \* App: selected surah or Null
  editingAyah,    \* AyahTable: identifier being edited or Null
  currentTime,    \* EditAyahModal: playback position in seconds or Null
  splitAyahs,     \* splitAyahsAtom: identifier -> version
  fetches,        \* GET /ayahs calls in flight
  pending,        \* row-action handlers in flight
  esOpen,         \* the EventSource of the current effect is open
  esOpened,       \* number of EventSource objects constructed
  sse,            \* messages in flight on the open EventSource
  alerted,        \* alert() shown by the last step, or Null
  lastOk,         \* history: payload of the last successful list fetch
  deliveredVer,   \* history: highest srvVer of a delivered split_finished
  inputs,         \* history: clicks that sent a POST and backend events so far
  bumps           \* history: identifier -> number of bump calls so far

vars == <<variant, mounted, db, srvVer, ayahs, isLoading, error,
          selectedSurah, editingAyah, currentTime, splitAyahs, fetches,
          pending, esOpen, esOpened, sse, alerted, lastOk, deliveredVer,
          inputs, bumps>>

----------------------------------------------------------------------------
(* Bounds *)
MaxInputs == 2   \* clicks that send a POST and backend events per session

\* null: an optional value is <<>> or <<v>>; an identifier is <<surah, ayah>>
Null == <<>>
Some(v) == <<v>>
NoError == "null"
NoAlert == [kind |-> "none"]
NoPending == [kind |-> "none"]

\* identifiers "<surah>_<ayah>" as <<surah, ayah>>
Ids == { <<2, 1>>, <<1, 1>> }
\* the order in which GET /ayahs lists the rows (not sorted)
PayloadOrder == << <<2, 1>>, <<1, 1>> >>
Matches == {"null", "false", "true"}
DbStatus == Matches \cup {"absent"}
Variants == {"A", "B"}

FetchError == "Failed to fetch ayahs"

\* playback positions the waveform reports, in seconds
Times == {12}

\* the databases a session starts with
InitDbs ==
  { [id \in Ids |-> "absent"],
    [id \in Ids |-> IF id = <<2, 1>> THEN "null" ELSE "false"] }

----------------------------------------------------------------------------
(* Pure functions *)

\* the JSON array GET /ayahs returns for a database
Payload(d) ==
  LET present(id) == d[id] # "absent"
      ids == SelectSeq(PayloadOrder, present)
  IN  [i \in 1..Len(ids) |-> [id |-> ids[i], matches |-> d[ids[i]]]]

getSurahNumber(ayahId) == ayahId[1]

parseAyahId(ayahId) == [surah |-> ayahId[1], ayah |-> ayahId[2]]

\* Array.prototype.sort((a, b) => a - b) of a set of numbers
RECURSIVE SortAsc(_)
SortAsc(S) ==
  IF S = {} THEN <<>>
  ELSE LET m == CHOOSE x \in S : \A y \in S : x <= y
       IN  <<m>> \o SortAsc(S \ {m})

\* the surah numbers in the order of the payload, not sorted
surahNumbersUnsorted(as) ==
  LET ns == [i \in DOMAIN as |-> getSurahNumber(as[i].id)]
      first(i) == \A j \in 1..(i - 1) : ns[j] # ns[i]
      idx == SelectSeq([i \in DOMAIN as |-> i], first)
  IN  [k \in DOMAIN idx |-> ns[idx[k]]]

surahNumbers(as) ==
  SortAsc({ getSurahNumber(as[i].id) : i \in DOMAIN as })

\* the comparator of filteredAyahs
RowBefore(a, b) ==
  LET idA == parseAyahId(a.id)
      idB == parseAyahId(b.id)
  IN  IF idA.surah # idB.surah THEN idA.surah < idB.surah
      ELSE idA.ayah < idB.ayah

RECURSIVE SortRows(_)
SortRows(S) ==
  IF S = {} THEN <<>>
  ELSE LET m == CHOOSE x \in S : \A y \in S \ {x} : RowBefore(x, y)
       IN  <<m>> \o SortRows(S \ {m})

filteredAyahs(as, sel) ==
  SortRows({ as[i] : i \in { j \in DOMAIN as : Some(getSurahNumber(as[j].id)) = sel } })

\* what App returns
View(sel, loading, err) ==
  IF sel = Null THEN "blank"
  ELSE IF loading THEN "loading"
  ELSE IF err # NoError THEN "error"
  ELSE "table"

\* the buttons of the actions cell
RowActions(v, m) ==
  IF v = "B"
  THEN (IF m = "false" THEN {"Edit", "Approve"} ELSE {})
       \cup (IF m = "null" THEN {"Auto-Split"} ELSE {})
  ELSE (IF m # "null" THEN {"Edit"} ELSE {})
       \cup {"Auto-Split"}
       \cup (IF m = "false" THEN {"Approve"} ELSE {})

\* a version read with the wrong fallback
VersionOfFallbackOne(id) ==
  IF id \in DOMAIN splitAyahs /\ splitAyahs[id] # 0 THEN splitAyahs[id] ELSE 1

\* AudioPlayer: splitAyahs[ayahId] || 0
VersionOf(id) ==
  IF id \in DOMAIN splitAyahs /\ splitAyahs[id] # 0 THEN splitAyahs[id] ELSE 0

\* the ayahs.length the current fetchAyahs closure was created with
ClosureLen(v, as) == IF v = "B" THEN Len(as) ELSE 0

\* useCallback gives a new fetchAyahs when a dependency changed
RefetchChanged(v, old, new) == v = "B" /\ Len(old) # Len(new)

----------------------------------------------------------------------------
(* Records *)

Slots == 1..MaxInputs

\* a GET /ayahs call: who started it, the server's answer, the handler
\* (slot of pending, 0 for none) awaiting it
NewFetch(origin, owner) ==
  [origin |-> origin, st |-> "sent", data |-> <<>>, owner |-> owner]

\* the calls in flight are a bag: calls with the same fields are alike
InFlight == BagCardinality(fetches)
Without(f) == fetches (-) SetToBag({f})
With(fs, f) == fs (+) SetToBag({f})

RowOf(as, id) == { as[i] : i \in { j \in DOMAIN as : as[j].id = id } }

\* the LoadingButton of an action is rendered
ButtonShown(v, as, sel, ed, kind, id) ==
  IF kind = "split_custom" THEN ed # Null
  ELSE \E r \in RowOf(as, id) :
         /\ Some(getSurahNumber(id)) = sel
         /\ (IF kind = "split" THEN "Auto-Split" ELSE "Approve")
              \in RowActions(v, r.matches)

\* a render: the initial-surah effect, and the component instances that
\* the new tree keeps (AyahTable lives only in the table view; a button
\* lives while its row and condition are rendered, the modal and its
\* position while editingAyah is set)
Commit(as, ld, er, sel0, ed0, pd0) ==
  LET sel == IF Len(surahNumbers(as)) > 0 /\ sel0 = Null
             THEN Some(surahNumbers(as)[1]) ELSE sel0
      tbl == View(sel, ld, er) = "table"
      ed  == IF tbl THEN ed0 ELSE Null
      keep(p) ==
        IF p = NoPending THEN NoPending
        ELSE IF ~tbl THEN [p EXCEPT !.inst = "gone"]
        ELSE IF p.inst = "button" /\ ~ButtonShown(variant, as, sel, ed, p.kind, p.id)
             THEN [p EXCEPT !.inst = "table"]
        ELSE p
  IN  /\ ayahs' = as
      /\ isLoading' = ld
      /\ error' = er
      /\ selectedSurah' = sel
      /\ editingAyah' = ed
      /\ currentTime' = IF ed = Null THEN Null ELSE currentTime
      /\ pending' = [s \in Slots |-> keep(pd0[s])]

----------------------------------------------------------------------------
Init ==
  /\ variant \in Variants
  /\ mounted = TRUE
  /\ db \in InitDbs
  /\ srvVer = 0
  /\ ayahs = <<>>
  /\ isLoading = TRUE
  /\ error = NoError
  /\ selectedSurah = Null
  /\ editingAyah = Null
  /\ currentTime = Null
  /\ splitAyahs = [id \in {} |-> 0]
  /\ fetches = SetToBag({NewFetch("effect", 0)})
  /\ pending = [s \in Slots |-> NoPending]
  /\ esOpen = (variant = "B")
  /\ esOpened = IF variant = "B" THEN 1 ELSE 0
  /\ sse = <<>>
  /\ alerted = NoAlert
  /\ lastOk = <<>>
  /\ deliveredVer = -1
  /\ inputs = 0
  /\ bumps = [id \in Ids |-> 0]

----------------------------------------------------------------------------
(* The backend (outside the repository) *)

Input == inputs < MaxInputs /\ inputs' = inputs + 1
NoInput == inputs' = inputs

Push(m) == IF esOpen THEN Append(sse, m) ELSE sse

\* GET /ayahs is answered with the whole collection
FetchRespond(f) ==
  /\ mounted
  /\ f.st = "sent"
  /\ fetches' = With(Without(f), [f EXCEPT !.st = "ok", !.data = Payload(db)])
  /\ alerted' = NoAlert
  /\ NoInput
  /\ UNCHANGED <<variant, mounted, db, srvVer, ayahs, isLoading, error,
                 selectedSurah, editingAyah, currentTime, splitAyahs, bumps,
                 pending, esOpen, esOpened, sse, lastOk, deliveredVer>>

\* a split job of the backend finishes and is announced
ServerSplitDone(id, m) ==
  /\ mounted
  /\ db[id] # "absent"
  /\ db' = [db EXCEPT ![id] = m]
  /\ srvVer' = srvVer + 1
  /\ sse' = Push([type |-> "split_finished", id |-> id, error |-> "",
                  ver |-> srvVer + 1])
  /\ alerted' = NoAlert
  /\ Input
  /\ UNCHANGED <<variant, mounted, ayahs, isLoading, error, selectedSurah,
                 editingAyah, currentTime, splitAyahs, bumps, fetches, pending,
                 esOpen, esOpened, lastOk, deliveredVer>>

\* a split job fails, or the backend sends something else
ServerPush(type, id) ==
  /\ mounted
  /\ esOpen
  /\ IF type = "split_failed" THEN id \in Ids /\ db[id] # "absent"
     ELSE id = Null
  /\ sse' = Push([type |-> type, id |-> id,
                  error |-> IF type = "split_failed" THEN "x" ELSE "",
                  ver |-> srvVer])
  /\ alerted' = NoAlert
  /\ Input
  /\ UNCHANGED <<variant, mounted, db, srvVer, ayahs, isLoading, error,
                 selectedSurah, editingAyah, currentTime, splitAyahs, bumps,
                 fetches, pending, esOpen, esOpened, lastOk, deliveredVer>>

\* the other changes of the rows: one added, one removed
DbChanges == { <<"absent", "null">> } \cup { <<m, "absent">> : m \in Matches }

ServerChange(id, st) ==
  /\ mounted
  /\ <<db[id], st>> \in DbChanges
  /\ db' = [db EXCEPT ![id] = st]
  /\ srvVer' = srvVer + 1
  /\ alerted' = NoAlert
  /\ Input
  /\ UNCHANGED <<variant, mounted, ayahs, isLoading, error, selectedSurah,
                 editingAyah, currentTime, splitAyahs, bumps, fetches, pending,
                 esOpen, esOpened, sse, lastOk, deliveredVer>>

----------------------------------------------------------------------------
(* useAyahs *)

\* the part of fetchAyahs before its await: the loading flag
LoadingOnStart(capLen, ld) == IF capLen = 0 THEN TRUE ELSE ld

\* the handler awaiting the fetch resumes: its button stops loading and
\* handleSplit closes the modal of its AyahTable
Resume(pd, owner) == [s \in Slots |-> IF s = owner THEN NoPending ELSE pd[s]]
CloseAfter(pd, owner, ed) ==
  IF owner \in Slots /\ pd[owner].kind = "split_custom" /\ pd[owner].inst # "gone"
  THEN Null ELSE ed

\* fetchAyahs after a successful response, the render and its effects: with
\* a new fetchAyahs the mount effect fetches again and the listener effect
\* closes its EventSource and opens another
FetchSucceed(f) ==
  LET rest == Without(f)
      changed == RefetchChanged(variant, ayahs, f.data)
  IN  /\ mounted
      /\ f.st = "ok"
      /\ fetches' = IF changed THEN With(rest, NewFetch("effect", 0)) ELSE rest
      /\ esOpened' = IF changed THEN esOpened + 1 ELSE esOpened
      /\ sse' = IF changed THEN <<>> ELSE sse
      /\ Commit(f.data,
                IF changed THEN LoadingOnStart(Len(f.data), FALSE) ELSE FALSE,
                error, selectedSurah,
                CloseAfter(pending, f.owner, editingAyah),
                Resume(pending, f.owner))
      /\ lastOk' = f.data
      /\ alerted' = NoAlert
      /\ NoInput
      /\ UNCHANGED <<variant, mounted, db, srvVer, splitAyahs, bumps, esOpen,
                     deliveredVer>>

\* fetchAyahs after a failure (a non-2xx status, a rejected fetch, a body
\* that is not JSON), leaving the collection as as
FailedFetch(f, as) ==
  /\ mounted
  /\ f.st = "sent"
  /\ fetches' = Without(f)
  /\ Commit(as, FALSE, FetchError, selectedSurah,
            CloseAfter(pending, f.owner, editingAyah),
            Resume(pending, f.owner))
  /\ alerted' = NoAlert
  /\ NoInput
  /\ UNCHANGED <<variant, mounted, db, srvVer, splitAyahs, bumps, esOpen,
                 esOpened, sse, lastOk, deliveredVer>>

\* a failed fetch that blanks the table
FetchFailClears(f) == FailedFetch(f, <<>>)

\* the catch branch sets the error and does not touch the collection
FetchFail(f) == FailedFetch(f, ayahs)

----------------------------------------------------------------------------
(* App: the EventSource listener *)

Max(a, b) == IF a > b THEN a ELSE b

\* es.onmessage
OnMessage ==
  LET msg == Head(sse)
  IN  /\ mounted
      /\ esOpen
      /\ sse # <<>>
      /\ sse' = Tail(sse)
      /\ IF msg.type = "split_finished"
         THEN /\ fetches' = With(fetches, NewFetch("push", 0))
              /\ Commit(ayahs, LoadingOnStart(ClosureLen(variant, ayahs), isLoading),
                        error, selectedSurah, editingAyah, pending)
              /\ deliveredVer' = Max(deliveredVer, msg.ver)
              /\ alerted' = NoAlert
         ELSE /\ alerted' = IF msg.type = "split_failed"
                            THEN [kind |-> "split_failed", id |-> msg.id,
                                  error |-> msg.error]
                            ELSE NoAlert
              /\ UNCHANGED <<fetches, ayahs, isLoading, error, selectedSurah,
                             editingAyah, currentTime, pending, deliveredVer>>
      /\ NoInput
      /\ UNCHANGED <<variant, mounted, db, srvVer, splitAyahs, bumps, esOpen,
                     esOpened, lastOk>>

\* App is torn down: the cleanup of the listener effect closes the
\* EventSource.  App is the root component, so the session ends here: the
\* state of the components is gone and nothing in flight is handled
Unmount ==
  /\ mounted
  /\ mounted' = FALSE
  /\ esOpen' = FALSE
  /\ ayahs' = <<>>
  /\ isLoading' = FALSE
  /\ error' = NoError
  /\ selectedSurah' = Null
  /\ editingAyah' = Null
  /\ currentTime' = Null
  /\ fetches' = EmptyBag
  /\ pending' = [s \in Slots |-> NoPending]
  /\ sse' = <<>>
  /\ alerted' = NoAlert
  /\ NoInput
  /\ UNCHANGED <<variant, db, srvVer, splitAyahs, bumps, esOpened, lastOk,
                 deliveredVer>>

\* SurahSelector onChange
SelectSurah(n) ==
  /\ mounted
  /\ View(selectedSurah, isLoading, error) = "table"
  /\ editingAyah = Null
  /\ \E i \in DOMAIN surahNumbers(ayahs) : surahNumbers(ayahs)[i] = n
  /\ Some(n) # selectedSurah
  /\ Commit(ayahs, isLoading, error, Some(n), editingAyah, pending)
  /\ alerted' = NoAlert
  /\ NoInput
  /\ UNCHANGED <<variant, mounted, db, srvVer, splitAyahs, bumps, fetches, esOpen,
                 esOpened, sse, lastOk, deliveredVer>>

----------------------------------------------------------------------------
(* AyahTable and EditAyahModal *)

FreeSlot(s) ==
  pending[s] = NoPending /\ \A t \in Slots : t < s => pending[t] # NoPending

\* a LoadingButton that is never disabled
ButtonNeverDisabled(kind, id) == TRUE

\* a LoadingButton is disabled while its own handler runs
ButtonIdle(kind, id) ==
  \A s \in Slots :
     ~(pending[s] # NoPending /\ pending[s].kind = kind /\ pending[s].id = id
        /\ pending[s].inst = "button")

\* the position sent as it is, in seconds
RequestBodySeconds(kind, ct) ==
  IF kind = "split_custom" THEN [split_time_ms |-> ct[1]]
  ELSE [none |-> TRUE]

\* the body of the POST: handleSplit passes currentTime * 1000, which
\* handleSplitAtTime sends as split_time_ms
RequestBody(kind, ct) ==
  IF kind = "split_custom" THEN [split_time_ms |-> ct[1] * 1000]
  ELSE [none |-> TRUE]

\* a click on Auto-Split, Approve or the Split button of the modal: the
\* handler runs up to its first await (the POST).  The modal lies over the
\* table; without a position its handleSplit returns at once, and the
\* button is idle again
Click(kind, id) ==
  /\ mounted
  /\ View(selectedSurah, isLoading, error) = "table"
  /\ IF kind = "split_custom"
     THEN variant = "B" /\ editingAyah = id
     ELSE editingAyah = Null
  /\ ButtonShown(variant, ayahs, selectedSurah, editingAyah, kind, id)
  /\ ButtonIdle(kind, id)
  /\ IF kind = "split_custom" /\ currentTime = Null
     THEN /\ pending' = pending
          /\ NoInput
     ELSE /\ \E s \in Slots :
               /\ FreeSlot(s)
               /\ pending' = [pending EXCEPT ![s] =
                    [kind |-> kind, id |-> id,
                     body |-> RequestBody(kind, currentTime),
                     capLen |-> ClosureLen(variant, ayahs),
                     phase |-> "post", inst |-> "button"]]
          /\ Input
  /\ alerted' = NoAlert
  /\ UNCHANGED <<variant, mounted, db, srvVer, ayahs, isLoading, error,
                 selectedSurah, editingAyah, currentTime, splitAyahs, bumps,
                 fetches, esOpen, esOpened, sse, lastOk, deliveredVer>>

\* a click on Edit: setEditingAyah(ayah)
ClickEdit(id) ==
  /\ mounted
  /\ variant = "B"
  /\ View(selectedSurah, isLoading, error) = "table"
  /\ editingAyah = Null
  /\ \E r \in RowOf(ayahs, id) :
       /\ Some(getSurahNumber(id)) = selectedSurah
       /\ "Edit" \in RowActions(variant, r.matches)
  /\ Commit(ayahs, isLoading, error, selectedSurah, id, pending)
  /\ alerted' = NoAlert
  /\ NoInput
  /\ UNCHANGED <<variant, mounted, db, srvVer, splitAyahs, bumps, fetches, esOpen,
                 esOpened, sse, lastOk, deliveredVer>>

\* WaveSurfer onTimeupdate: setCurrentTime(wavesurfer.getCurrentTime())
TimeUpdate(t) ==
  /\ mounted
  /\ editingAyah # Null
  /\ currentTime # Some(t)
  /\ currentTime' = Some(t)
  /\ alerted' = NoAlert
  /\ NoInput
  /\ UNCHANGED <<variant, mounted, db, srvVer, ayahs, isLoading, error,
                 selectedSurah, editingAyah, splitAyahs, bumps, fetches, pending,
                 esOpen, esOpened, sse, lastOk, deliveredVer>>

\* the modal's close and Cancel buttons: setEditingAyah(null)
ModalClose ==
  /\ mounted
  /\ editingAyah # Null
  /\ Commit(ayahs, isLoading, error, selectedSurah, Null, pending)
  /\ alerted' = NoAlert
  /\ NoInput
  /\ UNCHANGED <<variant, mounted, db, srvVer, splitAyahs, bumps, fetches, esOpen,
                 esOpened, sse, lastOk, deliveredVer>>

\* whether the handler goes on to onRefresh() after its POST: splitAyah and
\* handleSplitAtTime throw unless response.ok, the Approve handler does not
\* look at the response
Refreshes(kind, outcome) ==
  IF kind = "approve" THEN outcome # "network_error" ELSE outcome = "ok"

Outcomes == {"ok", "http_error", "network_error"}

\* the POST of a handler returns: onRefresh(), or the throw that
\* LoadingButton reports with alert()
MutationReturn(s, outcome) ==
  LET p == pending[s]
  IN  /\ mounted
      /\ p # NoPending
      /\ p.phase = "post"
      /\ IF Refreshes(p.kind, outcome)
         THEN /\ fetches' = With(fetches, NewFetch("action", s))
              /\ Commit(ayahs, LoadingOnStart(p.capLen, isLoading), error,
                        selectedSurah, editingAyah,
                        [pending EXCEPT ![s].phase = "refetch"])
              /\ alerted' = NoAlert
         ELSE /\ fetches' = fetches
              /\ Commit(ayahs, isLoading, error, selectedSurah, editingAyah,
                        Resume(pending, s))
              /\ alerted' = [kind |-> "failed", action |-> p.kind]
      /\ NoInput
      /\ UNCHANGED <<variant, mounted, db, srvVer, splitAyahs, bumps, esOpen,
                     esOpened, sse, lastOk, deliveredVer>>

----------------------------------------------------------------------------
Next ==
  \/ \E f \in BagToSet(fetches) : FetchRespond(f)
  \/ \E id \in Ids, m \in {"true", "false"} : ServerSplitDone(id, m)
  \/ \E t \in {"split_failed", "other", "malformed"}, id \in Ids \cup {Null} :
        ServerPush(t, id)
  \/ \E id \in Ids, st \in DbStatus : ServerChange(id, st)
  \/ \E f \in BagToSet(fetches) : FetchSucceed(f)
  \/ \E f \in BagToSet(fetches) : FetchFail(f)
  \/ OnMessage
  \/ Unmount
  \/ \E n \in { getSurahNumber(id) : id \in Ids } : SelectSurah(n)
  \/ \E k \in {"split", "approve", "split_custom"}, id \in Ids : Click(k, id)
  \/ \E id \in Ids : ClickEdit(id)
  \/ \E t \in Times : TimeUpdate(t)
  \/ ModalClose
  \/ \E s \in Slots, o \in Outcomes : MutationReturn(s, o)

Spec == Init /\ [][Next]_vars

----------------------------------------------------------------------------
(* The version store (stores/audioCache) under arbitrary callers *)

\* bump(id): one more completed split of id
bump(id) ==
  /\ mounted
  /\ splitAyahs' =
       [i \in DOMAIN splitAyahs \cup {id} |->
          IF i = id
          THEN (IF id \in DOMAIN splitAyahs THEN splitAyahs[id] + 1 ELSE 1)
          ELSE splitAyahs[i]]
  /\ bumps' = [bumps EXCEPT ![id] = @ + 1]
  /\ alerted' = NoAlert
  /\ Input
  /\ UNCHANGED <<variant, mounted, db, srvVer, ayahs, isLoading, error,
                 selectedSurah, editingAyah, currentTime, fetches, pending,
                 esOpen, esOpened, sse, lastOk, deliveredVer>>

StoreNext ==
  \/ \E id \in Ids : bump(id)
  \/ Next

StoreSpec == Init /\ [][StoreNext]_vars

----------------------------------------------------------------------------
(* The claims *)

CurrentView == View(selectedSurah, isLoading, error)

\* the client learns that a split of id completed: its own POST returned
\* success, or a split_finished message naming id arrived
SplitLearned(id) ==
  \/ \E s \in Slots :
       /\ pending[s] # NoPending
       /\ pending[s].kind \in {"split", "split_custom"}
       /\ pending[s].id = id
       /\ MutationReturn(s, "ok")
  \/ /\ sse # <<>>
     /\ Head(sse).type = "split_finished"
     /\ Head(sse).id = id
     /\ OnMessage

\* C1: every time the client learns that a split of id completed, the
\* version of id goes up by exactly one
C1_VersionBumped ==
  [][\A id \in Ids : SplitLearned(id) => VersionOf(id)' = VersionOf(id) + 1]_vars

\* C2: once the split_finished of the latest server change was delivered
\* and every list fetch has completed successfully, the collection is the
\* server's collection after that split
C2_ViewConsistent ==
  (mounted /\ srvVer > 0 /\ deliveredVer = srvVer /\ InFlight = 0 /\ error = NoError)
     => ayahs = Payload(db)

\* C3: a split_finished message starts exactly one list fetch, and the
\* completion of that fetch starts no further one; a split_failed message
\* starts none, changes no list state and shows the message's error text
C3_PushDispatch ==
  [][/\ (sse # <<>> /\ Head(sse).type = "split_finished" /\ OnMessage)
          => InFlight' = InFlight + 1
     /\ \A f \in BagToSet(fetches) :
          (f.origin = "push" /\ (FetchSucceed(f) \/ FetchFail(f)))
             => InFlight' = InFlight - 1
     /\ (sse # <<>> /\ Head(sse).type = "split_failed" /\ OnMessage)
          => /\ UNCHANGED <<fetches, ayahs, isLoading, error>>
             /\ alerted'.kind = "split_failed"
             /\ alerted'.error = Head(sse).error]_vars

\* C4: the push connection is opened exactly once and stays open until
\* App is torn down
C4_SingleConnection ==
  variant = "B" => (esOpened = 1 /\ (mounted => esOpen))

\* C5: a list fetch that fails while rows are loaded leaves them displayed
\* and sets no error; the error is set only by a failed first load
C5_BackgroundFailureKeepsTable ==
  [][\A f \in BagToSet(fetches) :
       FetchFail(f) =>
         IF ayahs # <<>>
         THEN /\ error' = error
              /\ ayahs' = ayahs
              /\ (CurrentView = "table" => CurrentView' = "table")
         ELSE error' # NoError]_vars

\* C6: the collection is, in full, the payload of the last list fetch that
\* completed successfully, and empty before the first one
C6_CollectionIsLastPayload ==
  mounted => ayahs = lastOk

\* C6 happens: a fetch failed after rows were loaded, and the rows are not
\* those the server holds now
C6_Witness ==
  /\ mounted
  /\ error # NoError
  /\ ayahs # <<>>
  /\ ayahs # Payload(db)

\* C7: a list fetch turns the loading flag on only if the collection is
\* empty when that fetch starts
C7_LoadingOnlyWhenEmpty ==
  [][(~isLoading /\ isLoading') => ayahs' = <<>>]_vars

\* C8: a non-2xx answer to a mutation call is shown as a notification,
\* starts no list fetch and changes neither the collection nor the selection
C8_MutationFailure ==
  [][\A s \in Slots :
       (pending[s] # NoPending /\ MutationReturn(s, "http_error"))
          => /\ alerted'.kind = "failed"
             /\ fetches' = fetches
             /\ ayahs' = ayahs
             /\ selectedSurah' = selectedSurah]_vars

\* C9: whenever a failed list fetch has set the error string, the
\* full-page error is what App shows
C9_ErrorShown ==
  (mounted /\ error # NoError) => CurrentView = "error"

\* C10: a list fetch that succeeds with rows brings the table back, also
\* after an earlier list fetch failed
C10_Recovers ==
  [][\A f \in BagToSet(fetches) :
       (FetchSucceed(f) /\ f.data # <<>>)
          => (error' = NoError /\ CurrentView' = "table")]_vars

\* C11: the version of every identifier is the number of bump calls made
\* for it so far (0 if none), whatever was bumped in between; it never
\* decreases and a list refetch does not reset it
C11_VersionCountsBumps ==
  [][\A id \in Ids :
       /\ VersionOf(id) = bumps[id]
       /\ VersionOf(id)' = bumps'[id]
       /\ VersionOf(id)' >= VersionOf(id)]_vars

\* C11 happens: the bumps of two identifiers were interleaved, and a list
\* fetch has replaced the collection
C11_Witness ==
  /\ \A id \in Ids : bumps[id] = 1
  /\ lastOk # <<>>
  /\ InFlight = 0

\* the surah numbers of the rows of a collection
SurahsOf(as) == { as[i].id[1] : i \in DOMAIN as }

\* C12: the surah list of every collection the hook takes on is its
\* distinct surah numbers in ascending order; with no surah selected, a
\* collection that becomes non-empty selects its smallest surah; a
\* selection once made is changed by the operator only, never by a refetch
C12_SurahSelection ==
  [][mounted' =>
       /\ ayahs' # ayahs =>
            LET list == surahNumbers(ayahs')
            IN  /\ { list[i] : i \in DOMAIN list } = SurahsOf(ayahs')
                /\ \A i, j \in DOMAIN list : i < j => list[i] < list[j]
       /\ (selectedSurah = Null /\ ayahs' # <<>>)
             => /\ selectedSurah' # Null
                /\ selectedSurah'[1] \in SurahsOf(ayahs')
                /\ \A n \in SurahsOf(ayahs') : selectedSurah'[1] <= n
       /\ (selectedSurah # Null /\ selectedSurah' # selectedSurah)
             => \E id \in Ids : SelectSurah(id[1])]_vars

\* C12 happens: the selected surah was kept through a refetch that no
\* longer returned any row of it
C12_Witness ==
  /\ mounted
  /\ selectedSurah = Some(1)
  /\ ayahs # <<>>
  /\ SurahsOf(ayahs) = {2}

\* C13: every row on display offers exactly Auto-Split when its match flag
\* is null, exactly Edit and Approve when it is false, and nothing when it
\* is true
C13_RowActionsByMatch ==
  (mounted /\ CurrentView = "table") =>
     LET rows == filteredAyahs(ayahs, selectedSurah)
     IN  \A i \in DOMAIN rows :
           RowActions(variant, rows[i].matches) =
             CASE rows[i].matches = "null"  -> {"Auto-Split"}
               [] rows[i].matches = "false" -> {"Edit", "Approve"}
               [] rows[i].matches = "true"  -> {}

\* the custom split of slot s is awaiting its POST, or its refetch
CustomSplit(s, phase) ==
  /\ pending[s] # NoPending
  /\ pending[s].kind = "split_custom"
  /\ pending[s].phase = phase

\* C14: confirming in the modal without a reported position sends nothing,
\* starts no refetch and leaves the modal open; confirming at position t
\* sends /split_custom for the edited row with split_time_ms = t * 1000;
\* the refetch starts only when that request succeeded, and only after it
\* does the handler close the modal
C14_ModalSplit ==
  [][/\ \A id \in Ids :
          Click("split_custom", id) =>
            IF currentTime = Null
            THEN UNCHANGED <<pending, fetches, editingAyah>>
            ELSE /\ \E s \in Slots :
                      /\ pending[s] = NoPending
                      /\ pending'[s].kind = "split_custom"
                      /\ pending'[s].id = editingAyah
                      /\ pending'[s].body.split_time_ms = currentTime[1] * 1000
                      /\ pending'[s].phase = "post"
                 /\ UNCHANGED <<fetches, editingAyah>>
     /\ \A s \in Slots :
          CustomSplit(s, "post") =>
            /\ \A o \in Outcomes \ {"ok"} :
                 MutationReturn(s, o) => UNCHANGED <<fetches, editingAyah>>
            /\ MutationReturn(s, "ok") =>
                 /\ InFlight' = InFlight + 1
                 /\ editingAyah' = editingAyah
     /\ (mounted' /\ CurrentView' = "table"
           /\ editingAyah # Null /\ editingAyah' = Null)
          => \/ ModalClose
             \/ \E f \in BagToSet(fetches) :
                  /\ f.owner \in Slots
                  /\ CustomSplit(f.owner, "refetch")
                  /\ (FetchSucceed(f) \/ FetchFail(f))]_vars

\* C14 happens: the request at 12 s succeeded, its refetch is in flight
\* and the modal is still open
C14_Witness ==
  /\ mounted
  /\ editingAyah # Null
  /\ \E s \in Slots :
       /\ CustomSplit(s, "refetch")
       /\ pending[s].id = editingAyah
       /\ pending[s].body.split_time_ms = 12000
  /\ InFlight > 0

\* the handler of slot s runs for a button that is still on the page
OnButton(pd, s) == pd[s] # NoPending /\ pd[s].inst = "button"

\* C15: a button on the page never has two of its onClick calls in flight;
\* when its onClick settles, by the end of the refetch or by a throw, the
\* button stops loading, and a throw is reported by a notification
C15_InFlightGuard ==
  [][/\ \A s, t \in Slots :
          (s # t /\ OnButton(pending', s) /\ OnButton(pending', t))
             => <<pending'[s].kind, pending'[s].id>>
                  # <<pending'[t].kind, pending'[t].id>>
     /\ \A s \in Slots :
          pending[s] # NoPending =>
            /\ \A o \in Outcomes :
                 (MutationReturn(s, o) /\ ~Refreshes(pending[s].kind, o))
                    => /\ pending'[s] = NoPending
                       /\ alerted'.kind = "failed"
            /\ \A f \in BagToSet(fetches) :
                 (f.owner = s /\ (FetchSucceed(f) \/ FetchFail(f)))
                    => pending'[s] = NoPending]_vars

\* C15 happens: the click on one button was rejected and reported while
\* the handler of another button is still in flight
C15_Witness ==
  /\ mounted
  /\ alerted.kind = "failed"
  /\ \E s \in Slots : OnButton(pending, s)

====
